---- MODULE Spec2Model ----
(***************************************************************************)
(* Model of the routing module of the Aragon client: parsePath, getAppPath *)
(* and parsePreferences.                                                   *)
(*                                                                         *)
(* A JavaScript string is a sequence of code points (integers), so that    *)
(* split, replace, indexOf, substr, endsWith, decodeURIComponent and       *)
(* encodeURIComponent are computed character by character.  A JavaScript   *)
(* value is a record [t |-> type tag, v |-> payload].                      *)
(***************************************************************************)
EXTENDS Integers, Sequences, FiniteSets, TLC

VARIABLES
  pc,        \* "idle" | "parsed" | "built"
  via,       \* what caused the latest parsePath call: "none" | "nav" | "replace" | "link"
  pathname,  \* pathname argument of the latest parsePath call
  search,    \* search argument of the latest parsePath call (a JS value)
  locator,   \* value returned by the latest parsePath call
  requests,  \* history.replace() arguments issued by the latest parsePath call
  logged,    \* number of console.log calls made by the latest parsePath call
  origin,    \* locator returned for the navigation that started the current chain
  hops,      \* number of requested replacements followed since that navigation
  appArgs,   \* argument object of the latest getAppPath call
  appPath    \* outcome of the latest getAppPath call

vars == <<pc, via, pathname, search, locator, requests, logged, origin, hops,
          appArgs, appPath>>

-----------------------------------------------------------------------------
(* Characters and string literals *)

\* Printable ASCII, code points 32..126 in order (code point 96 by name).
Printable ==
  <<" ", "!", "\"", "#", "$", "%", "&", "'", "(", ")", "*", "+", ",", "-", ".", "/",
    "0", "1", "2", "3", "4", "5", "6", "7", "8", "9", ":", ";", "<", "=", ">", "?",
    "@", "A", "B", "C", "D", "E", "F", "G", "H", "I", "J", "K", "L", "M", "N", "O",
    "P", "Q", "R", "S", "T", "U", "V", "W", "X", "Y", "Z", "[", "\\", "]", "^", "_",
    "GRAVE", "a", "b", "c", "d", "e", "f", "g", "h", "i", "j", "k", "l", "m", "n", "o",
    "p", "q", "r", "s", "t", "u", "v", "w", "x", "y", "z", "{", "|", "}", "~">>

\* Code point of a printable character.
Ord(c) == 31 + CHOOSE i \in 1..Len(Printable) : Printable[i] = c

\* The string spelled by a sequence of printable characters.
L(cs) == [i \in 1..Len(cs) |-> Ord(cs[i])]

SLASH == Ord("/")
PERCENT == Ord("%")
QUESTION == Ord("?")
HASH == Ord("#")

DOT == Ord(".")
HYPHEN == Ord("-")
UNDERSCORE == Ord("_")
DIGIT_0 == Ord("0")
UPPER_A == Ord("A")
LOWER_A == Ord("a")
LOWER_X == Ord("x")

IsDigit(c) == c \in DIGIT_0..(DIGIT_0 + 9)
IsUpper(c) == c \in UPPER_A..(UPPER_A + 25)
IsLower(c) == c \in LOWER_A..(LOWER_A + 25)
IsHexDigit(c) ==
  IsDigit(c) \/ c \in LOWER_A..(LOWER_A + 5) \/ c \in UPPER_A..(UPPER_A + 5)

HexValue(c) ==
  IF IsDigit(c) THEN c - DIGIT_0
  ELSE IF IsLower(c) THEN c - LOWER_A + 10
  ELSE c - UPPER_A + 10

HexDigits == L(<<"0", "1", "2", "3", "4", "5", "6", "7", "8", "9",
                 "A", "B", "C", "D", "E", "F">>)

-----------------------------------------------------------------------------
(* JavaScript values *)

Str(s) == [t |-> "string", v |-> s]
Undefined == [t |-> "undefined", v |-> <<>>]
Null == [t |-> "null", v |-> <<>>]
Arr(xs) == [t |-> "array", v |-> xs]
Obj(o) == [t |-> "object", v |-> o]

IsStr(x) == x.t = "string"
SameVal(x, y) == x.t = y.t /\ x.v = y.v

\* ToBoolean on the values that occur here.
Truthy(x) ==
  CASE x.t = "undefined" -> FALSE
    [] x.t = "null" -> FALSE
    [] x.t = "string" -> x.v # <<>>
    [] OTHER -> TRUE

\* arr[i] (0-based) of a JS array of strings.
At(xs, i) == IF i + 1 <= Len(xs) THEN Str(xs[i + 1]) ELSE Undefined

\* [...rest] after the first n elements.
Rest(xs, n) == IF n >= Len(xs) THEN <<>> ELSE SubSeq(xs, n + 1, Len(xs))

-----------------------------------------------------------------------------
(* String built-ins *)

\* t occurs in s at position i (1-based).
OccursAt(s, t, i) ==
  /\ i + Len(t) - 1 <= Len(s)
  /\ (t = <<>> \/ (s[i] = t[1] /\ SubSeq(s, i, i + Len(t) - 1) = t))

\* String.prototype.indexOf: 0-based index of the first occurrence, or -1.
IndexOf(s, t) ==
  LET hits == {i \in 1..(Len(s) - Len(t) + 1) : OccursAt(s, t, i)}
  IN IF hits = {} THEN -1
     ELSE (CHOOSE i \in hits : \A j \in hits : i <= j) - 1

\* String.prototype.endsWith.
EndsWith(s, t) ==
  Len(t) <= Len(s) /\ SubSeq(s, Len(s) - Len(t) + 1, Len(s)) = t

\* String.prototype.split with a non-empty string separator.
RECURSIVE Split(_, _)
Split(s, sep) ==
  LET i == IndexOf(s, sep)
  IN IF i = -1 THEN <<s>>
     ELSE <<SubSeq(s, 1, i)>> \o Split(SubSeq(s, i + Len(sep) + 1, Len(s)), sep)

\* String.prototype.replace with a string pattern: the first occurrence only.
ReplaceFirst(s, t, r) ==
  LET i == IndexOf(s, t)
  IN IF i = -1 THEN s
     ELSE SubSeq(s, 1, i) \o r \o SubSeq(s, i + Len(t) + 1, Len(s))

\* String.prototype.substr(0, n): a negative length gives the empty string.
Substr0(s, n) ==
  IF n <= 0 THEN <<>> ELSE SubSeq(s, 1, IF n < Len(s) THEN n ELSE Len(s))

-----------------------------------------------------------------------------
(* Percent codec: decodeURIComponent and encodeURIComponent *)

\* Outcome of a call that may throw.
Ok(x) == [ok |-> TRUE, v |-> x]
Thrown == [ok |-> FALSE, v |-> <<>>]

\* s has an escape "%XX" at position k (1-based).
HasEscape(s, k) ==
  k + 2 <= Len(s) /\ s[k] = PERCENT /\ IsHexDigit(s[k + 1]) /\ IsHexDigit(s[k + 2])

EscapeByte(s, k) == 16 * HexValue(s[k + 1]) + HexValue(s[k + 2])

\* Number of leading 1 bits of an octet.
LeadingOnes(b) ==
  IF b < 128 THEN 0
  ELSE IF b < 192 THEN 1
  ELSE IF b < 224 THEN 2
  ELSE IF b < 240 THEN 3
  ELSE IF b < 248 THEN 4
  ELSE 5

\* The n - 1 escapes after position k are all continuation octets 10xxxxxx.
ContinuationsOk(s, k, n) ==
  \A j \in 1..(n - 1) :
    HasEscape(s, k + 3 * j) /\ LeadingOnes(EscapeByte(s, k + 3 * j)) = 1

\* Code point of the n-octet UTF-8 sequence whose escapes start at k.
RECURSIVE Accumulate(_, _, _, _)
Accumulate(s, k, n, acc) ==
  IF n = 0 THEN acc
  ELSE Accumulate(s, k + 3, n - 1, acc * 64 + (EscapeByte(s, k) % 64))

SequenceValue(s, k, n) ==
  LET lead == EscapeByte(s, k)
      bits == IF n = 2 THEN lead % 32 ELSE IF n = 3 THEN lead % 16 ELSE lead % 8
  IN Accumulate(s, k + 3, n - 1, bits)

\* A well-formed (shortest-form, non-surrogate, in-range) n-octet encoding.
WellFormed(v, n) ==
  CASE n = 2 -> v >= 128
    [] n = 3 -> v >= 2048 /\ ~(v \in 55296..57343)
    [] n = 4 -> v >= 65536 /\ v <= 1114111

\* decodeURIComponent: the decoded string, or Thrown for a URIError.
RECURSIVE DecodeFrom(_, _)
DecodeFrom(s, k) ==
  IF k > Len(s) THEN Ok(<<>>)
  ELSE IF s[k] # PERCENT THEN
    LET r == DecodeFrom(s, k + 1) IN IF r.ok THEN Ok(<<s[k]>> \o r.v) ELSE Thrown
  ELSE IF ~HasEscape(s, k) THEN Thrown
  ELSE
    LET b == EscapeByte(s, k)
        n == LeadingOnes(b)
    IN IF n = 0 THEN
         LET r == DecodeFrom(s, k + 3) IN IF r.ok THEN Ok(<<b>> \o r.v) ELSE Thrown
       ELSE IF n = 1 \/ n > 4 THEN Thrown
       ELSE IF ~ContinuationsOk(s, k, n) THEN Thrown
       ELSE IF ~WellFormed(SequenceValue(s, k, n), n) THEN Thrown
       ELSE LET r == DecodeFrom(s, k + 3 * n)
            IN IF r.ok THEN Ok(<<SequenceValue(s, k, n)>> \o r.v) ELSE Thrown

decodeURIComponent(s) == DecodeFrom(s, 1)

UnreservedMarks == {Ord(c) : c \in {"-", "_", ".", "!", "~", "*", "'", "(", ")"}}

\* Characters encodeURIComponent leaves alone: A-Z a-z 0-9 - _ . ! ~ * ' ( )
Unreserved(c) ==
  IsUpper(c) \/ IsLower(c) \/ IsDigit(c)
    \/ c \in UnreservedMarks

\* UTF-8 octets of a code point.
Utf8(v) ==
  IF v < 128 THEN <<v>>
  ELSE IF v < 2048 THEN <<192 + (v \div 64), 128 + (v % 64)>>
  ELSE IF v < 65536 THEN
    <<224 + (v \div 4096), 128 + ((v \div 64) % 64), 128 + (v % 64)>>
  ELSE <<240 + (v \div 262144), 128 + ((v \div 4096) % 64),
         128 + ((v \div 64) % 64), 128 + (v % 64)>>

Escape(b) == <<PERCENT, HexDigits[(b \div 16) + 1], HexDigits[(b % 16) + 1]>>

RECURSIVE EscapeAll(_)
EscapeAll(bs) == IF bs = <<>> THEN <<>> ELSE Escape(Head(bs)) \o EscapeAll(Tail(bs))

\* encodeURIComponent: the encoded string, or Thrown for a lone surrogate.
RECURSIVE encodeURIComponent(_)
encodeURIComponent(s) ==
  IF s = <<>> THEN Ok(<<>>)
  ELSE IF Head(s) \in 55296..57343 THEN Thrown
  ELSE LET r == encodeURIComponent(Tail(s))
           h == IF Unreserved(Head(s)) THEN <<Head(s)>> ELSE EscapeAll(Utf8(Head(s)))
       IN IF r.ok THEN Ok(h \o r.v) ELSE Thrown

-----------------------------------------------------------------------------
(* Collaborators: ./web3-utils, ./static-apps, ./symbols *)

AddressHexLength == 40

\* isAddress: "0x" followed by AddressHexLength hexadecimal digits.
isAddress(s) ==
  /\ Len(s) = AddressHexLength + 2
  /\ s[1] = DIGIT_0
  /\ s[2] = LOWER_X
  /\ \A i \in 3..Len(s) : IsHexDigit(s[i])

ETH == L(<<"e", "t", "h">>)

IsLabelChar(c) == IsUpper(c) \/ IsLower(c) \/ IsDigit(c) \/ c = UNDERSCORE \/ c = HYPHEN

\* isValidEnsName: non-empty labels of word characters and hyphens, joined by
\* dots, under the top-level label "eth".
isValidEnsName(s) ==
  LET labels == Split(s, <<DOT>>)
  IN /\ Len(labels) >= 2
     /\ labels[Len(labels)] = ETH
     /\ \A i \in 1..Len(labels) :
          labels[i] # <<>> /\ \A j \in 1..Len(labels[i]) : IsLabelChar(labels[i][j])

HOME == L(<<"h", "o", "m", "e">>)
PERMISSIONS == L(<<"p", "e", "r", "m", "i", "s", "s", "i", "o", "n", "s">>)
SETTINGS == L(<<"s", "e", "t", "t", "i", "n", "g", "s">>)

\* staticApps: instance id -> descriptor with its route.
staticApps ==
  { [id |-> HOME, route |-> <<SLASH>>],
    [id |-> PERMISSIONS, route |-> <<SLASH>> \o PERMISSIONS],
    [id |-> SETTINGS, route |-> <<SLASH>> \o SETTINGS] }

staticAppsHas(id) == \E e \in staticApps : e.id = id
staticAppsGet(id) == CHOOSE e \in staticApps : e.id = id

APP_MODE_START == "APP_MODE_START"
APP_MODE_ORG == "APP_MODE_ORG"
APP_MODE_SETUP == "APP_MODE_SETUP"

-----------------------------------------------------------------------------
(* The routing module *)

ARAGONID_ENS_DOMAIN == L(<<"a", "r", "a", "g", "o", "n", "i", "d", ".", "e", "t", "h">>)

GLOBAL_PREFERENCES_QUERY_PARAM ==
  L(<<"?", "p", "r", "e", "f", "e", "r", "e", "n", "c", "e", "s", "=", "/">>)

GLOBAL_PREFERENCES_SHARE_LINK_QUERY_VAR == L(<<"&", "l", "a", "b", "e", "l", "s", "=">>)

OPEN == L(<<"o", "p", "e", "n">>)
CREATE == L(<<"c", "r", "e", "a", "t", "e">>)
SETUP == L(<<"s", "e", "t", "u", "p">>)
PARAMS_MARKER == L(<<"?", "p", "=">>)

\* A locator object: keys is the set of its own properties; a property that is
\* not in keys reads as undefined.
NoLocator ==
  [keys |-> {}, mode |-> "none", path |-> Undefined, action |-> Undefined,
   step |-> Undefined, parts |-> Undefined, dao |-> Undefined,
   instanceId |-> Undefined, params |-> Undefined, preferences |-> Undefined]

\* const [, ...parts] = pathname.split('/')
PathParts(p) == Rest(Split(p, <<SLASH>>), 1)

\* Mutant of IsStart: 'create' is not recognised.
IsStart_NoCreate(parts) ==
  \/ ~Truthy(At(parts, 0))
  \/ SameVal(At(parts, 0), Str(OPEN))

\* !parts[0] || parts[0] === 'open' || parts[0] === 'create'
IsStart(parts) ==
  \/ ~Truthy(At(parts, 0))
  \/ SameVal(At(parts, 0), Str(OPEN))
  \/ SameVal(At(parts, 0), Str(CREATE))

\* parts[0] === 'setup'
IsSetup(parts) == SameVal(At(parts, 0), Str(SETUP))

\* { path, mode: APP_MODE_START, action: parts[0] }
StartLocator(path, parts) ==
  [NoLocator EXCEPT !.keys = {"path", "mode", "action"}, !.mode = APP_MODE_START,
                    !.path = Str(path), !.action = At(parts, 0)]

\* Mutant of SetupLocator: step falls back to null for an empty segment too.
SetupLocator_StepFalsy(path, parts) ==
  [NoLocator EXCEPT !.keys = {"path", "mode", "step", "parts"}, !.mode = APP_MODE_SETUP,
                    !.path = Str(path),
                    !.step = IF Truthy(At(parts, 1)) THEN At(parts, 1) ELSE Null,
                    !.parts = Arr(Rest(parts, 2))]

\* const [, step = null, ...setupParts] = parts
\* { path, mode: APP_MODE_SETUP, step, parts: setupParts }
SetupLocator(path, parts) ==
  [NoLocator EXCEPT !.keys = {"path", "mode", "step", "parts"}, !.mode = APP_MODE_SETUP,
                    !.path = Str(path),
                    !.step = IF At(parts, 1).t = "undefined" THEN Null ELSE At(parts, 1),
                    !.parts = Arr(Rest(parts, 2))]

\* dao after "Assume .aragonid.eth if not given a valid address or a valid ENS domain"
ResolveDao(dao) ==
  IF ~isAddress(dao) /\ ~isValidEnsName(dao)
  THEN dao \o <<DOT>> \o ARAGONID_ENS_DOMAIN
  ELSE dao

\* The else-if branch: the URL is to be replaced by its non-aragonid.eth version.
WantsReplace(dao) ==
  /\ ~(~isAddress(dao) /\ ~isValidEnsName(dao))
  /\ isValidEnsName(dao)
  /\ EndsWith(dao, ARAGONID_ENS_DOMAIN)

\* The argument of history.replace().
ReplaceRequest(p, s) ==
  [pathname |-> ReplaceFirst(p, <<DOT>> \o ARAGONID_ENS_DOMAIN, <<>>),
   search |-> s,
   state |-> [alreadyParsed |-> TRUE]]

\* Mutant of RawParams: everything after the first '?p='.
RawParams_AfterFirst(s) ==
  IF IndexOf(s, PARAMS_MARKER) = -1 THEN (IF s = <<>> THEN Str(s) ELSE Undefined)
  ELSE Str(SubSeq(s, IndexOf(s, PARAMS_MARKER) + Len(PARAMS_MARKER) + 1, Len(s)))

\* const rawParams = search && search.split('?p=')[1]
RawParams(s) == IF s = <<>> THEN Str(s) ELSE At(Split(s, PARAMS_MARKER), 1)

\* Mutant of DecodeParams: the raw text is kept when it cannot be decoded.
DecodeParams_KeepRaw(raw) ==
  IF ~Truthy(raw) THEN [params |-> Null, logged |-> 0]
  ELSE LET d == decodeURIComponent(raw.v)
       IN IF d.ok THEN [params |-> Str(d.v), logged |-> 0]
          ELSE [params |-> raw, logged |-> 1]

\* let params = null; if (rawParams) { try { decode } catch { console.log } }
DecodeParams(raw) ==
  IF ~Truthy(raw) THEN [params |-> Null, logged |-> 0]
  ELSE LET d == decodeURIComponent(raw.v)
       IN IF d.ok THEN [params |-> Str(d.v), logged |-> 0]
          ELSE [params |-> Null, logged |-> 1]

\* Mutant of InstanceIdOrHome: 'home' only when the segment is missing.
InstanceIdOrHome_MissingOnly(parts) ==
  IF At(parts, 1).t = "undefined" THEN Str(HOME) ELSE At(parts, 1)

\* instanceId: instanceId || 'home'
InstanceIdOrHome(parts) == IF Truthy(At(parts, 1)) THEN At(parts, 1) ELSE Str(HOME)

parsePreferences(s) ==
  LET found == IF s = <<>> THEN Undefined
               ELSE At(Split(s, GLOBAL_PREFERENCES_QUERY_PARAM), 1)
      raw == IF found.t = "undefined" THEN <<>> ELSE found.v
      pieces == Split(raw, GLOBAL_PREFERENCES_SHARE_LINK_QUERY_VAR)
      path == IF At(pieces, 0).t = "undefined" THEN Null ELSE At(pieces, 0)
      labels == IF At(pieces, 1).t = "undefined" THEN Null ELSE At(pieces, 1)
      params == IF Truthy(labels)
                THEN <<[key |-> GLOBAL_PREFERENCES_SHARE_LINK_QUERY_VAR, value |-> labels.v]>>
                ELSE <<>>
  IN Obj([path |-> path, params |-> params])

\* parsePath(history, pathname, search = ''): history is the list of replace
\* requests received so far; the outcome carries the returned locator, the
\* list after the call and the number of console.log calls.
parsePath(history, p, searchArg) ==
  LET s == IF searchArg.t = "undefined" THEN <<>> ELSE searchArg.v
      path == p \o s
      parts == PathParts(p)
  IN IF IsStart(parts)
     THEN [ret |-> StartLocator(path, parts), history |-> history, logged |-> 0]
     ELSE IF IsSetup(parts)
     THEN [ret |-> SetupLocator(path, parts), history |-> history, logged |-> 0]
     ELSE
       LET dao == parts[1]
           decoded == DecodeParams(RawParams(s))
       IN [ret |-> [NoLocator EXCEPT
                      !.keys = {"path", "mode", "dao", "instanceId", "params", "parts",
                                "preferences"},
                      !.mode = APP_MODE_ORG,
                      !.path = Str(path),
                      !.dao = Str(ResolveDao(dao)),
                      !.instanceId = InstanceIdOrHome(parts),
                      !.params = decoded.params,
                      !.parts = Arr(Rest(parts, 2)),
                      !.preferences = parsePreferences(s)],
           history |-> IF WantsReplace(dao)
                       THEN Append(history, ReplaceRequest(p, s))
                       ELSE history,
           logged |-> decoded.logged]

\* getAppPath({ dao: fullDao, instanceId = 'home', params } = {})
getAppPath(args) ==
  IF ~IsStr(args.dao) THEN Thrown
  ELSE
    LET fullDao == args.dao.v
        instanceId == IF args.instanceId.t = "undefined" THEN Str(HOME)
                      ELSE args.instanceId
        idText == IF instanceId.t = "null" THEN L(<<"n", "u", "l", "l">>)
                  ELSE instanceId.v
        dao == IF IndexOf(fullDao, ARAGONID_ENS_DOMAIN) > -1
               THEN Substr0(fullDao, IndexOf(fullDao, ARAGONID_ENS_DOMAIN) - 1)
               ELSE fullDao
        paramsPart == IF Truthy(args.params)
                      THEN LET e == encodeURIComponent(args.params.v)
                           IN IF e.ok THEN Ok(PARAMS_MARKER \o e.v) ELSE Thrown
                      ELSE Ok(<<>>)
    IN IF ~paramsPart.ok THEN Thrown
       ELSE IF IsStr(instanceId) /\ staticAppsHas(instanceId.v)
       THEN Ok(<<SLASH>> \o dao \o staticAppsGet(instanceId.v).route \o paramsPart.v)
       ELSE Ok(<<SLASH>> \o dao \o <<SLASH>> \o idText \o paramsPart.v)

-----------------------------------------------------------------------------
(* Inputs *)

MaxAtoms == 2        \* atoms concatenated into the first path segment or a dao
MaxSegs == 3         \* segments of a pathname
MaxSearchAtoms == 3  \* atoms concatenated into a search string
MaxHops == 2         \* requested replacements followed after one navigation

ADDRESS == L(<<"0", "x", "c", "a", "f", "e", "1", "a", "7", "7", "e", "8", "4", "6", "9", "8", "c", "8", "3", "c", "a", "8", "9", "3", "1", "f", "5", "4", "a", "7", "5", "5", "1", "7", "6", "e", "f", "7", "5", "f", "2", "c">>)

\* All concatenations of at most n strings of atoms.
RECURSIVE Concats(_, _)
Concats(atoms, n) ==
  IF n = 0 THEN {<<>>}
  ELSE LET shorter == Concats(atoms, n - 1)
       IN shorter \cup {a \o b : a \in shorter, b \in atoms}

SegmentAtoms ==
  { OPEN, SETUP, L(<<"x">>), L(<<".", "e", "t", "h">>), ARAGONID_ENS_DOMAIN,
    <<DOT>> \o ARAGONID_ENS_DOMAIN, ADDRESS }

FirstSegments == Concats(SegmentAtoms, MaxAtoms)

LaterSegments == { <<>>, L(<<"v", "o", "t", "i", "n", "g">>) }

\* Lists of at most n later segments.
RECURSIVE LaterLists(_)
LaterLists(n) ==
  IF n <= 0 THEN {<<>>}
  ELSE LET shorter == LaterLists(n - 1)
       IN shorter \cup {Append(l, x) : l \in shorter, x \in LaterSegments}

RECURSIVE JoinPath(_)
JoinPath(segs) ==
  IF segs = <<>> THEN <<>> ELSE <<SLASH>> \o Head(segs) \o JoinPath(Tail(segs))

Pathnames ==
  {<<>>} \cup {JoinPath(<<f>> \o l) : f \in FirstSegments, l \in LaterLists(MaxSegs - 1)}

SearchAtoms ==
  { PARAMS_MARKER, GLOBAL_PREFERENCES_QUERY_PARAM, GLOBAL_PREFERENCES_SHARE_LINK_QUERY_VAR,
    L(<<"a">>), L(<<"%", "4", "1">>), <<PERCENT>>, L(<<"%", "C", "3">>), L(<<"%", "A", "9">>) }

Searches == Concats(SearchAtoms, MaxSearchAtoms)

MYDAO == L(<<"m", "y", "d", "a", "o">>)
SEARCH_JSON == L(<<"?", "p", "=", "%", "7", "B", "%", "2", "2", "a", "%", "2", "2", "%", "3", "A", "1", "%", "7", "D">>)
SEARCH_PREFERENCES == L(<<"?", "p", "r", "e", "f", "e", "r", "e", "n", "c", "e", "s", "=", "/", "a", "d", "m", "i", "n", "&", "l", "a", "b", "e", "l", "s", "=", "x", "y", "z">>)

\* The documented example paths, each combined with every search string.
CorePathnames ==
  { <<SLASH>>,
    <<SLASH>> \o CREATE,
    <<SLASH>> \o SETUP \o L(<<"/", "2", "/", "f", "o", "o">>),
    <<SLASH>> \o MYDAO,
    <<SLASH>> \o MYDAO \o <<DOT>> \o ARAGONID_ENS_DOMAIN,
    <<SLASH>> \o ADDRESS \o <<SLASH>> \o L(<<"v", "o", "t", "i", "n", "g">>) }

\* The search arguments combined with every pathname.
CoreSearchArgs == { Undefined, Str(SEARCH_JSON), Str(SEARCH_PREFERENCES) }

SearchArgs ==
  {Str(s) : s \in Searches \cup {SEARCH_JSON, SEARCH_PREFERENCES, L(<<"?", "p", "=", "a", "?", "p", "=", "%">>)}}
    \cup {Undefined}

ParseInputs == (Pathnames \X CoreSearchArgs) \cup (CorePathnames \X SearchArgs)

AppDaos == {Str(ResolveDao(f)) : f \in FirstSegments \ {<<>>}} \cup {Undefined}

AppInstanceIds == { Undefined, Str(HOME), Str(SETTINGS), Str(L(<<"v", "o", "t", "i", "n", "g">>)), Str(ADDRESS) }

AppParams ==
  { Undefined, Null, Str(<<>>), Str(L(<<"a">>)), Str(L(<<"{", "\"", "a", "\"", ":", "1", "}">>)), Str(L(<<"?", "p", "=", "a">>)),
    Str(<<233>>), Str(<<55296>>) }

CoreAppDaos == { Str(ADDRESS), Str(MYDAO \o <<DOT>> \o ARAGONID_ENS_DOMAIN) }

\* Every dao with the plain rest, and the plain daos with every rest.
AppInputs ==
  [dao : AppDaos, instanceId : {Undefined, Str(L(<<"v", "o", "t", "i", "n", "g">>))}, params : {Null, Str(L(<<"{", "\"", "a", "\"", ":", "1", "}">>))}]
    \cup [dao : CoreAppDaos, instanceId : AppInstanceIds, params : AppParams]

-----------------------------------------------------------------------------
(* Callers: the history listener and the link followed by the browser *)

\* createLocation(path) of the history object: hash, then search, are cut off.
SplitUrl(url) ==
  LET h == IndexOf(url, <<HASH>>)
      noHash == IF h = -1 THEN url ELSE Substr0(url, h)
      q == IndexOf(noHash, <<QUESTION>>)
      rawSearch == IF q = -1 THEN <<>> ELSE SubSeq(noHash, q + 1, Len(noHash))
  IN [pathname |-> IF q = -1 THEN noHash ELSE Substr0(noHash, q),
      search |-> IF rawSearch = <<QUESTION>> THEN <<>> ELSE rawSearch]

NoArgs == [dao |-> Undefined, instanceId |-> Undefined, params |-> Undefined]

-----------------------------------------------------------------------------
(* State machine *)

Init ==
  /\ pc = "idle"
  /\ via = "none"
  /\ pathname = <<>>
  /\ search = Undefined
  /\ locator = NoLocator
  /\ requests = <<>>
  /\ logged = 0
  /\ origin = NoLocator
  /\ hops = 0
  /\ appArgs = NoArgs
  /\ appPath = Ok(<<>>)

\* The state after parsePath(history, p, s) was called because of `cause`.
Parsed(p, s, cause) ==
  \E out \in {parsePath(<<>>, p, s)} :
     /\ pc' = "parsed"
     /\ via' = cause
     /\ pathname' = p
     /\ search' = s
     /\ locator' = out.ret
     /\ requests' = out.history
     /\ logged' = out.logged

\* A navigation event: the listener parses the new location.
Navigate(p, s) ==
  /\ pc = "idle"
  /\ Parsed(p, s, "nav")
  /\ origin' = locator'
  /\ hops' = 0
  /\ UNCHANGED <<appArgs, appPath>>

\* The requested replacement takes place and the new location is parsed again.
FollowReplace ==
  /\ pc = "parsed"
  /\ requests # <<>>
  /\ hops < MaxHops
  /\ Parsed(requests[1].pathname, Str(requests[1].search), "replace")
  /\ hops' = hops + 1
  /\ UNCHANGED <<origin, appArgs, appPath>>

\* The UI builds a link with getAppPath.
BuildLink(args) ==
  /\ pc = "idle"
  /\ pc' = "built"
  /\ appArgs' = args
  /\ appPath' = getAppPath(args)
  /\ UNCHANGED <<via, pathname, search, locator, requests, logged, origin, hops>>

\* The link is followed: its location is parsed.
FollowLink ==
  /\ pc = "built"
  /\ appPath.ok
  /\ LET loc == SplitUrl(appPath.v)
     IN Parsed(loc.pathname, Str(loc.search), "link")
  /\ origin' = locator'
  /\ hops' = 0
  /\ UNCHANGED <<appArgs, appPath>>

\* The locator is discarded before the next navigation event.
Discard ==
  /\ pc # "idle"
  /\ pc' = "idle"
  /\ via' = "none"
  /\ pathname' = <<>>
  /\ search' = Undefined
  /\ locator' = NoLocator
  /\ requests' = <<>>
  /\ logged' = 0
  /\ origin' = NoLocator
  /\ hops' = 0
  /\ appArgs' = NoArgs
  /\ appPath' = Ok(<<>>)

Next ==
  \/ pc = "idle" /\ \E in \in ParseInputs : Navigate(in[1], in[2])
  \/ FollowReplace
  \/ pc = "idle" /\ \E args \in AppInputs : BuildLink(args)
  \/ FollowLink
  \/ Discard

Spec == Init /\ [][Next]_vars

-----------------------------------------------------------------------------
(* Vocabulary of the properties *)

StartKeys == {"path", "mode", "action"}
SetupKeys == {"path", "mode", "step", "parts"}
OrgKeys == {"path", "mode", "dao", "instanceId", "params", "parts", "preferences"}
ValueKeys == (StartKeys \cup SetupKeys \cup OrgKeys) \ {"mode"}

Field(l, k) ==
  CASE k = "path" -> l.path
    [] k = "action" -> l.action
    [] k = "step" -> l.step
    [] k = "parts" -> l.parts
    [] k = "dao" -> l.dao
    [] k = "instanceId" -> l.instanceId
    [] k = "params" -> l.params
    [] k = "preferences" -> l.preferences

\* Only the properties in keys carry a value.
OnlyKeysPopulated(l) == \A k \in ValueKeys \ l.keys : Field(l, k).t = "undefined"

\* Position of the first slash of p at or after k, or 0.
RECURSIVE NextSlash(_, _)
NextSlash(p, k) ==
  IF k > Len(p) THEN 0 ELSE IF p[k] = SLASH THEN k ELSE NextSlash(p, k + 1)

\* The segments of p from position k on, k being just after a slash.
RECURSIVE SegmentsFrom(_, _)
SegmentsFrom(p, k) ==
  LET n == NextSlash(p, k)
  IN IF n = 0 THEN <<SubSeq(p, k, Len(p))>>
     ELSE <<SubSeq(p, k, n - 1)>> \o SegmentsFrom(p, n + 1)

\* The path segments after the leading slash; none when p has no slash.
Segments(p) == IF NextSlash(p, 1) = 0 THEN <<>> ELSE SegmentsFrom(p, NextSlash(p, 1) + 1)

SearchText == IF search.t = "undefined" THEN <<>> ELSE search.v

\* Everything in s after the first occurrence of marker m; undefined without it.
AfterFirst(s, m) ==
  IF IndexOf(s, m) = -1 THEN Undefined
  ELSE Str(SubSeq(s, IndexOf(s, m) + Len(m) + 1, Len(s)))

\* t up to its first occurrence of marker m, or all of t.
UpToNext(t, m) == IF IndexOf(t, m) = -1 THEN t ELSE SubSeq(t, 1, IndexOf(t, m))

StartLike(segs) == segs = <<>> \/ segs[1] = <<>> \/ segs[1] = OPEN \/ segs[1] = CREATE

OrgPath(segs) == ~StartLike(segs) /\ segs[1] # SETUP

-----------------------------------------------------------------------------
(* Properties *)

C9_SetupStepAndParts ==
  (pc = "parsed" /\ Segments(pathname) # <<>> /\ Segments(pathname)[1] = SETUP) =>
    LET segs == Segments(pathname)
    IN /\ locator.mode = APP_MODE_SETUP
       /\ SameVal(locator.step, IF Len(segs) >= 2 THEN Str(segs[2]) ELSE Null)
       /\ locator.parts.t = "array"
       /\ locator.parts.v = SubSeq(segs, 3, Len(segs))
       /\ requests = <<>>
       /\ locator.keys \cap (OrgKeys \ SetupKeys) = {}
       /\ \A k \in OrgKeys \ SetupKeys : Field(locator, k).t = "undefined"

C9_Witness ==
  /\ pc = "parsed"
  /\ pathname = <<SLASH>> \o SETUP \o L(<<"/", "2", "/", "f", "o", "o">>)
  /\ SameVal(locator.step, Str(L(<<"2">>)))
  /\ locator.parts = Arr(<<L(<<"f", "o", "o">>)>>)

DOT_ARAGONID_ETH ==
  L(<<".", "a", "r", "a", "g", "o", "n", "i", "d", ".", "e", "t", "h">>)

\* The dao of an org locator as the spec words it.
ClaimedDao(seg) ==
  IF isAddress(seg) \/ isValidEnsName(seg) THEN seg ELSE seg \o DOT_ARAGONID_ETH

\* C3 as stated: for every org-mode pathname, dao is the first segment
\* unchanged when it is a valid address or domain and the first segment
\* followed by ".aragonid.eth" otherwise; instanceId is the second segment
\* when present and "home" otherwise; parts is the list of the segments
\* after the second one; path is pathname followed by search.
C3_AsStated ==
  (pc = "parsed" /\ OrgPath(Segments(pathname))) =>
    LET segs == Segments(pathname)
    IN /\ SameVal(locator.dao, Str(ClaimedDao(segs[1])))
       /\ SameVal(locator.instanceId, IF Len(segs) >= 2 THEN Str(segs[2]) ELSE Str(HOME))
       /\ locator.parts.t = "array" /\ locator.parts.v = SubSeq(segs, 3, Len(segs))
       /\ SameVal(locator.path, Str(pathname \o SearchText))

\* C3 as amended: the same, with instanceId the second segment when it is
\* present and not empty, and "home" otherwise.
C3_OrgLocatorFields ==
  (pc = "parsed" /\ OrgPath(Segments(pathname))) =>
    LET segs == Segments(pathname)
    IN /\ SameVal(locator.dao, Str(ClaimedDao(segs[1])))
       /\ SameVal(locator.instanceId,
                  IF Len(segs) >= 2 /\ segs[2] # <<>> THEN Str(segs[2]) ELSE Str(HOME))
       /\ locator.parts.t = "array" /\ locator.parts.v = SubSeq(segs, 3, Len(segs))
       /\ SameVal(locator.path, Str(pathname \o SearchText))

C3_Witness ==
  /\ pc = "parsed"
  /\ OrgPath(Segments(pathname))
  /\ Len(Segments(pathname)) >= 3
  /\ Segments(pathname)[2] = <<>>
  /\ Segments(pathname)[3] # <<>>
  /\ ~isAddress(Segments(pathname)[1]) /\ ~isValidEnsName(Segments(pathname)[1])
  /\ SameVal(locator.instanceId, Str(HOME))

\* C4 as stated: for every org-mode call, if search contains "?p=" then
\* params is the percent-decoding of everything in search after the first
\* "?p=", later "?p=" text included, and without the marker params is null.
C4_AsStated ==
  (pc = "parsed" /\ locator.mode = APP_MODE_ORG) =>
    LET after == AfterFirst(SearchText, PARAMS_MARKER)
    IN IF after.t = "undefined" THEN locator.params.t = "null"
       ELSE decodeURIComponent(after.v).ok =>
              SameVal(locator.params, Str(decodeURIComponent(after.v).v))

\* C4 as amended: for every org-mode call, params is the percent-decoding of
\* the text between the first "?p=" and the next "?p=" (or the end of
\* search) when search contains the marker and that text is not empty and is
\* validly encoded, and null in every other case.
C4_ParamsBetweenMarkers ==
  (pc = "parsed" /\ locator.mode = APP_MODE_ORG) =>
    LET after == AfterFirst(SearchText, PARAMS_MARKER)
        text == IF after.t = "undefined" THEN <<>> ELSE UpToNext(after.v, PARAMS_MARKER)
    IN IF text # <<>> /\ decodeURIComponent(text).ok
       THEN SameVal(locator.params, Str(decodeURIComponent(text).v))
       ELSE locator.params.t = "null"

C4_Witness ==
  /\ pc = "parsed"
  /\ locator.mode = APP_MODE_ORG
  /\ AfterFirst(SearchText, PARAMS_MARKER).t = "string"
  /\ IndexOf(AfterFirst(SearchText, PARAMS_MARKER).v, PARAMS_MARKER) > 0
  /\ locator.params.t = "string"
  /\ Len(locator.params.v) < Len(AfterFirst(SearchText, PARAMS_MARKER).v)

\* What a failed decoding must leave: a complete org locator with params
\* null, and dao, instanceId, parts and the replacement request as for the
\* same pathname with a decodable search.
DegradedToNull ==
  LET ref == parsePath(<<>>, pathname, Str(SEARCH_JSON))
  IN /\ locator.mode = APP_MODE_ORG
     /\ locator.keys = OrgKeys
     /\ locator.params.t = "null"
     /\ SameVal(locator.dao, ref.ret.dao)
     /\ SameVal(locator.instanceId, ref.ret.instanceId)
     /\ SameVal(locator.parts, ref.ret.parts)
     /\ Len(requests) = Len(ref.history)
     /\ locator.preferences.t = "object"
     /\ SameVal(locator.path, Str(pathname \o SearchText))

\* C5 as stated: when the text after "?p=" in search is not valid
\* percent-encoding, parsePath does not raise and returns a complete org
\* locator with params null and the other fields intact; the failure is
\* only logged.
C5_AsStated ==
  (pc = "parsed" /\ OrgPath(Segments(pathname))) =>
    LET after == AfterFirst(SearchText, PARAMS_MARKER)
    IN (after.t = "string" /\ ~decodeURIComponent(after.v).ok) => DegradedToNull

\* C5 as amended: when the text between the first "?p=" and the next "?p="
\* (or the end of search) is not valid percent-encoding, parsePath does not
\* raise and returns a complete org locator with params null and the other
\* fields intact; the failure is only logged.
C5_DecodeFailureDegrades ==
  (pc = "parsed" /\ OrgPath(Segments(pathname))) =>
    LET after == AfterFirst(SearchText, PARAMS_MARKER)
    IN (after.t = "string" /\ ~decodeURIComponent(UpToNext(after.v, PARAMS_MARKER)).ok)
         => (DegradedToNull /\ logged = 1)

C5_Witness ==
  /\ pc = "parsed"
  /\ locator.mode = APP_MODE_ORG
  /\ SearchText = L(<<"?", "p", "=", "%">>)
  /\ locator.params.t = "null"
  /\ logged = 1

\* seg without its trailing suffix domain and the separator before it.
WithoutSuffixDomain(seg) ==
  IF EndsWith(seg, DOT_ARAGONID_ETH)
  THEN SubSeq(seg, 1, Len(seg) - Len(DOT_ARAGONID_ETH))
  ELSE SubSeq(seg, 1, Len(seg) - Len(DOT_ARAGONID_ETH) + 1)

\* C2: a replacement is requested if and only if the first segment is a valid
\* domain that ends with aragonid.eth; at most one request is issued per
\* call; its pathname is the input pathname with the suffix domain removed
\* from the organization segment, its search is the input search and its
\* state carries alreadyParsed; the returned locator is an org locator whose
\* dao is the unshortened segment.
C2_ReplacementRequest ==
  pc = "parsed" =>
    LET segs == Segments(pathname)
        redundant == /\ segs # <<>>
                     /\ isValidEnsName(segs[1])
                     /\ EndsWith(segs[1], Tail(DOT_ARAGONID_ETH))
    IN /\ (requests # <<>>) <=> redundant
       /\ Len(requests) <= 1
       /\ requests # <<>> =>
            /\ requests[1].pathname =
                 <<SLASH>> \o WithoutSuffixDomain(segs[1]) \o JoinPath(Tail(segs))
            /\ requests[1].search = SearchText
            /\ requests[1].state.alreadyParsed
            /\ locator.mode = APP_MODE_ORG
            /\ SameVal(locator.dao, Str(segs[1]))

\* C10: whenever a replacement is requested, the requested pathname differs
\* from the input pathname, and parsing the requested location returns an org
\* locator with the dao, instanceId and params of the original call and
\* requests no further replacement.
C10_RedirectConverges ==
  /\ (pc = "parsed" /\ requests # <<>>) => requests[1].pathname # pathname
  /\ (pc = "parsed" /\ via = "replace") =>
       /\ locator.mode = APP_MODE_ORG
       /\ SameVal(locator.dao, origin.dao)
       /\ SameVal(locator.instanceId, origin.instanceId)
       /\ SameVal(locator.params, origin.params)
       /\ requests = <<>>

\* A valid org-mode locator with no registry instanceId.
ValidLocatorArgs(a) ==
  /\ IsStr(a.dao)
  /\ IsStr(a.instanceId) /\ a.instanceId.v # <<>> /\ ~staticAppsHas(a.instanceId.v)
  /\ a.params.t \in {"null", "string"}

\* C6: parsing the path built by getAppPath for a valid org-mode locator
\* gives an org locator with the same dao, instanceId and params.
C6_RoundTrip ==
  (pc = "parsed" /\ via = "link" /\ ValidLocatorArgs(appArgs)) =>
    /\ locator.mode = APP_MODE_ORG
    /\ SameVal(locator.dao, appArgs.dao)
    /\ SameVal(locator.instanceId, appArgs.instanceId)
    /\ SameVal(locator.params, appArgs.params)

\* C7: getAppPath returns "/" + D + R + P: D is dao without its trailing
\* ".aragonid.eth", or dao unchanged when it is an address or a domain
\* without that suffix; R is the registry route of instanceId, or
\* "/" + instanceId (default "home") when it has none; P is "?p=" + the
\* percent-encoded params when params is non-null, and empty otherwise.
C7_BuiltPath ==
  (pc = "built" /\ IsStr(appArgs.dao)
     /\ (IsStr(appArgs.params) => encodeURIComponent(appArgs.params.v).ok)) =>
    LET dao == appArgs.dao.v
        D == IF EndsWith(dao, DOT_ARAGONID_ETH) THEN WithoutSuffixDomain(dao) ELSE dao
        id == IF appArgs.instanceId.t = "undefined" THEN HOME ELSE appArgs.instanceId.v
        R == IF staticAppsHas(id) THEN staticAppsGet(id).route ELSE <<SLASH>> \o id
        P == IF IsStr(appArgs.params)
             THEN PARAMS_MARKER \o encodeURIComponent(appArgs.params.v).v
             ELSE <<>>
    IN appPath.ok /\ appPath.v = <<SLASH>> \o D \o R \o P

\* C8: preferences.path is the text between the first "?preferences=/" and
\* "&labels=", and null when that text is empty or the first marker is
\* absent; preferences.params has exactly one entry, "&labels=" mapped to the
\* text after "&labels=", when labels are present, and is empty otherwise.
C8_Preferences ==
  (pc = "parsed" /\ locator.mode = APP_MODE_ORG) =>
    LET after == AfterFirst(SearchText, GLOBAL_PREFERENCES_QUERY_PARAM)
        raw == IF after.t = "undefined" THEN <<>> ELSE after.v
        text == UpToNext(raw, GLOBAL_PREFERENCES_SHARE_LINK_QUERY_VAR)
        labels == AfterFirst(raw, GLOBAL_PREFERENCES_SHARE_LINK_QUERY_VAR)
        prefs == locator.preferences.v
    IN /\ SameVal(prefs.path, IF text = <<>> THEN Null ELSE Str(text))
       /\ prefs.params =
            IF labels.t = "string" /\ labels.v # <<>>
            THEN <<[key |-> GLOBAL_PREFERENCES_SHARE_LINK_QUERY_VAR, value |-> labels.v]>>
            ELSE <<>>

====
